---- MODULE Spec2Model ----
(***************************************************************************)
(* Market alert dashboard (src/App.py).                                    *)
(*                                                                         *)
(* The script is a Streamlit page: every rerun executes it top to bottom   *)
(* (one refresh cycle).  A cycle loads the price frame through a cache     *)
(* with a lifetime of one hour, derives the 200-day moving averages, and   *)
(* builds the list of alerts, which it shows as warnings or successes.     *)
(* The only state that survives a cycle is the cache.                      *)
(*                                                                         *)
(* Numbers.  Prices are integers.  A moving average is kept as the sum of  *)
(* its window (the mean times Window), so that every comparison of a price *)
(* with an average is exact.  A 3-month return is kept as a fraction       *)
(* <<numerator, denominator>>.  The yield is kept in hundredths of a       *)
(* percent.  NaN is the missing value of pandas: every comparison with it  *)
(* is false and every sum containing it is NaN.                            *)
(*                                                                         *)
(* Text.  An alert is the sequence of its characters; the two characters   *)
(* outside ASCII are written "approx" and "endash".                        *)
(*                                                                         *)
(* The lines that only write the overview to the page (63-80, 89-107,      *)
(* 113-117) leave no state behind and are not modelled.                    *)
(***************************************************************************)
EXTENDS Integers, Sequences, FiniteSets, TLC

VARIABLES
    clock,            \* wall clock, in seconds
    feed,             \* the frame the data provider serves at this moment
    cache,            \* entries of st.cache_data for load_data
    prices,           \* the frame of the latest cycle (<<>> before the first)
    latest_prices,    \* prices.iloc[-1]
    latest_ma200,     \* ma200.iloc[-1]
    sectors_above,    \* breadth count of the latest cycle
    returns,          \* [XLY, XLP] 3-month returns of the latest cycle, <<>> when not computed
    alerts,           \* the alert list of the latest cycle
    shown,            \* how each alert was displayed: "warning", "success", or <<"info">>
    downloaded,       \* the latest cycle called yf.download
    pressed,          \* the latest cycle was started by the Refresh button
    end_date,         \* datetime.now() of the latest cycle, None before the first
    last_download,    \* history: clock of the newest download before the latest cycle, None if none
    prev_signal,      \* history: SPY's state in the cycle before the latest
    ticks             \* number of clock steps taken (bounded)

vars == <<clock, feed, cache, prices, latest_prices, latest_ma200, sectors_above, returns,
          alerts, shown, downloaded, pressed, end_date,
          last_download, prev_signal, ticks>>

-----------------------------------------------------------------------------
(* Configuration, src/App.py lines 12-29 *)

portfolio_stocks == <<"AAPL", "MSFT">>
portfolio_equity_etfs == <<"SPY", "QQQ", "IWM", "EEM">>
sector_etfs == <<"XLE", "XLB", "XLI", "XLY", "XLV", "XLF", "XLK", "XLC", "XLRE", "XLU", "XLP">>
bond_etfs == <<"TLT">>
commodity_etfs == <<"GLD">>
market_indicators == <<"^VIX", "^TNX">>
all_tickers ==
    portfolio_stocks \o portfolio_equity_etfs \o sector_etfs \o bond_etfs \o commodity_etfs
        \o market_indicators

Tickers == {all_tickers[i] : i \in DOMAIN all_tickers}

Window == 200          \* prices.rolling(window=200)
Lookback == 63         \* len(prices) > 63, iloc[-63]
TTL == 3600            \* st.cache_data(ttl=3600)
HistorySeconds == 600 * 86400   \* timedelta(days=600)
VixLow == 20
VixHigh == 30
YieldHigh == 400       \* 4.0 percent, in hundredths of a percent
BreadthWeak == 3
BreadthStrong == 8

NaN == -1              \* float('nan'); no price is negative
None == -2             \* Python's None

\* pd.isna
IsNa(x) == x = NaN \/ x = None

-----------------------------------------------------------------------------
(* Bounds of the model *)

MaxExtraRows == 1      \* frames have up to Window + MaxExtraRows rows
MaxTicks == 2          \* clock steps in a session

-----------------------------------------------------------------------------
(* pandas arithmetic *)

\* Series.get(key, default)
Get(series, key, default) == IF key \in DOMAIN series THEN series[key] ELSE default

\* a >= b, a < b, a > b on floats: false when either side is NaN
Ge(a, b) == ~IsNa(a) /\ ~IsNa(b) /\ a >= b
Lt(a, b) == ~IsNa(a) /\ ~IsNa(b) /\ a < b
Gt(a, b) == ~IsNa(a) /\ ~IsNa(b) /\ a > b

\* price against a moving average kept as a window sum
Scaled(price) == IF IsNa(price) THEN price ELSE price * Window

RECURSIVE SumRows(_, _, _)
\* sum of col[lo..hi], summed by halves
SumRows(col, lo, hi) ==
    IF lo > hi THEN 0
    ELSE IF lo = hi THEN col[lo]
    ELSE SumRows(col, lo, (lo + hi) \div 2) + SumRows(col, ((lo + hi) \div 2) + 1, hi)

\* prices.rolling(window=200).mean() at row i (1-based), times Window:
\* undefined before the window is full or when the window holds a NaN
RollingMean(col, i) ==
    IF i < Window \/ i > Len(col) THEN NaN
    ELSE IF \E j \in (i - Window + 1)..i : IsNa(col[j]) THEN NaN
    ELSE SumRows(col, i - Window + 1, i)

\* series.iloc[-k]
ILoc(col, k) == col[Len(col) - k + 1]

\* number of rows of a frame
Rows(frame) == Len(frame["SPY"])

LatestPrices(frame) == [t \in DOMAIN frame |-> ILoc(frame[t], 1)]
LatestMa200(frame) == [t \in DOMAIN frame |-> RollingMean(frame[t], Len(frame[t]))]

-----------------------------------------------------------------------------
(* The frames the data provider may serve.  A column is a base level with   *)
(* a few rows, counted from the end (0 is the latest row), set apart.       *)

Col(n, base, ov) == [i \in 1..n |-> IF (n - i) \in DOMAIN ov THEN ov[n - i] ELSE base]

MakeFrame(sc) == [t \in Tickers |-> Col(sc.n, sc.base[t], sc.ov[t])]

NoOv == [t \in Tickers |-> <<>>]

\* a quiet market: every price at its average, low volatility, low yield
Calm ==
    [n |-> Window + 1,
     base |-> [t \in Tickers |-> IF t = "^VIX" THEN 15 ELSE IF t = "^TNX" THEN 35 ELSE 100],
     ov |-> NoOv]

\* a sell-off: SPY and the cyclical sectors drop, staples and bonds rise
Stress ==
    [n |-> Window + 1,
     base |-> [t \in Tickers |-> IF t = "^VIX" THEN 30 ELSE IF t = "^TNX" THEN 40 ELSE 100],
     ov |-> [t \in Tickers |->
               IF t \in {"XLP", "TLT", "GLD"} THEN (0 :> 101)
               ELSE IF t \in {"^VIX", "^TNX"} THEN <<>>
               ELSE (0 :> 95)]]

Backgrounds == {Calm, Stress}

FullRows == Window..(Window + MaxExtraRows)
AllRows == {Lookback, Lookback + 1, Window - 1} \cup FullRows

OtherSectors == <<"XLE", "XLB", "XLI", "XLV", "XLF", "XLK", "XLC", "XLRE", "XLU">>

\* SPY's last two rows and TLT's last row
TrendScenarios ==
    {[bg EXCEPT !.n = n, !.ov["SPY"] = (1 :> p) @@ (0 :> l), !.ov["TLT"] = (0 :> b)] :
        bg \in Backgrounds, n \in FullRows, p \in {95, 100, 101}, l \in {95, 101, NaN},
        b \in {100, 101, NaN}}

\* the first k of the nine other sectors above their average, XLY and XLP each set apart
BreadthScenarios ==
    {[bg EXCEPT !.ov = [t \in Tickers |->
          IF t = "XLY" THEN (0 :> y)
          ELSE IF t = "XLP" THEN (0 :> s)
          ELSE IF \E j \in DOMAIN OtherSectors : OtherSectors[j] = t
               THEN (0 :> IF \E j \in 1..k : OtherSectors[j] = t THEN 101 ELSE 95)
               ELSE bg.ov[t]]] :
        bg \in Backgrounds, k \in 0..Len(OtherSectors), y \in {95, 101, NaN}, s \in {95, 101, NaN}}

\* the latest VIX and ^TNX values
RiskScenarios ==
    {[bg EXCEPT !.ov["^VIX"] = (0 :> v), !.ov["^TNX"] = (0 :> x)] :
        bg \in Backgrounds, v \in {20, 21, 29, 30, 32, NaN}, x \in {39, 40, 45, NaN}}

\* short and long histories; the XLY and XLP price 63 and 62 rows before the latest
HistoryScenarios ==
    {[bg EXCEPT !.n = n, !.ov["XLY"] = (Lookback :> a) @@ (Lookback - 1 :> c) @@ bg.ov["XLY"],
                !.ov["XLP"] = (Lookback :> c) @@ (Lookback - 1 :> a) @@ bg.ov["XLP"]] :
        bg \in Backgrounds, n \in AllRows, a \in {100, 50}, c \in {100, 80}}

Scenarios == TrendScenarios \cup BreadthScenarios \cup RiskScenarios \cup HistoryScenarios

Feeds == {MakeFrame(sc) : sc \in Scenarios}

\* the frames of a session with a running clock: a quiet market in which
\* SPY's last two rows vary
SessionFeeds ==
    {MakeFrame([Calm EXCEPT !.n = n, !.ov["SPY"] = (1 :> p) @@ (0 :> l)]) :
        n \in FullRows, p \in {95, 101}, l \in {95, 101}}

\* the row a new trading day appends to the provider's frame
NewRows ==
    {[t \in Tickers |-> IF t = "^VIX" THEN 15 ELSE IF t = "^TNX" THEN 35 ELSE 101],
     [t \in Tickers |-> IF t = "^VIX" THEN 30 ELSE IF t = "^TNX" THEN 40 ELSE 95]}

AppendRow(frame, row) == [t \in DOMAIN frame |-> Append(frame[t], row[t])]

-----------------------------------------------------------------------------
(* Text *)

UpperCase ==
    <<"A", "B", "C", "D", "E", "F", "G", "H", "I", "J", "K", "L", "M", "N", "O", "P", "Q", "R",
      "S", "T", "U", "V", "W", "X", "Y", "Z">>
LowerCase ==
    <<"a", "b", "c", "d", "e", "f", "g", "h", "i", "j", "k", "l", "m", "n", "o", "p", "q", "r",
      "s", "t", "u", "v", "w", "x", "y", "z">>
DigitChars == <<"0", "1", "2", "3", "4", "5", "6", "7", "8", "9">>

\* str.lower()
LowerOf == [c \in {UpperCase[i] : i \in DOMAIN UpperCase} |->
               LowerCase[CHOOSE i \in DOMAIN UpperCase : UpperCase[i] = c]]
LowerChar(c) == IF c \in DOMAIN LowerOf THEN LowerOf[c] ELSE c
Lower(s) == [i \in DOMAIN s |-> LowerChar(s[i])]

\* word in text
Contains(text, word) ==
    \E i \in 1..(Len(text) - Len(word) + 1) :
        \A j \in 1..Len(word) : text[i + j - 1] = word[j]

RECURSIVE Digits(_)
\* the decimal digits of a natural number
Digits(n) == IF n < 10 THEN <<DigitChars[n + 1]>> ELSE Digits(n \div 10) \o <<DigitChars[(n % 10) + 1]>>

\* f"{v:.1f}" of a whole number
Fmt1(v) == Digits(v) \o <<".", "0">>
\* f"{y:.2f}" of a value given in hundredths
Fmt2(h) == Digits(h \div 100) \o <<".", DigitChars[((h % 100) \div 10) + 1], DigitChars[(h % 10) + 1]>>

(* The alert texts *)

\* src/App.py line 130
FellBelowMsg ==
    <<"S", "P", "Y", " ", "*", "*", "f", "e", "l", "l", " ", "b", "e", "l", "o", "w", "*", "*",
      " ", "i", "t", "s", " ", "2", "0", "0", "-", "d", "a", "y", " ", "m", "o", "v", "i", "n",
      "g", " ", "a", "v", "e", "r", "a", "g", "e", ".", " ", "T", "h", "i", "s", " ", "m", "o",
      "m", "e", "n", "t", "u", "m", " ", "s", "h", "i", "f", "t", " ", "s", "u", "g", "g", "e",
      "s", "t", "s", " ", "i", "n", "c", "r", "e", "a", "s", "i", "n", "g", " ", "c", "a", "u",
      "t", "i", "o", "n", " ", "o", "n", " ", "e", "q", "u", "i", "t", "i", "e", "s", ".">>

\* src/App.py line 132
RemainsBelowMsg ==
    <<"S", "P", "Y", " ", "r", "e", "m", "a", "i", "n", "s", " ", "b", "e", "l", "o", "w", " ",
      "i", "t", "s", " ", "2", "0", "0", "-", "d", "a", "y", " ", "m", "o", "v", "i", "n", "g",
      " ", "a", "v", "e", "r", "a", "g", "e", ",", " ", "i", "n", "d", "i", "c", "a", "t", "i",
      "n", "g", " ", "c", "o", "n", "t", "i", "n", "u", "e", "d", " ", "w", "e", "a", "k", " ",
      "m", "o", "m", "e", "n", "t", "u", "m", " ", "f", "o", "r", " ", "e", "q", "u", "i", "t",
      "i", "e", "s", ".">>

\* src/App.py line 136
ClimbedAboveMsg ==
    <<"S", "P", "Y", " ", "*", "*", "c", "l", "i", "m", "b", "e", "d", " ", "b", "a", "c", "k",
      " ", "a", "b", "o", "v", "e", "*", "*", " ", "i", "t", "s", " ", "2", "0", "0", "-", "d",
      "a", "y", " ", "m", "o", "v", "i", "n", "g", " ", "a", "v", "e", "r", "a", "g", "e", ",",
      " ", "s", "i", "g", "n", "a", "l", "i", "n", "g", " ", "i", "m", "p", "r", "o", "v", "i",
      "n", "g", " ", "m", "o", "m", "e", "n", "t", "u", "m", ".", " ", "C", "o", "n", "s", "i",
      "d", "e", "r", " ", "i", "n", "c", "r", "e", "a", "s", "i", "n", "g", " ", "e", "q", "u",
      "i", "t", "y", " ", "e", "x", "p", "o", "s", "u", "r", "e", ".">>

\* src/App.py line 142, text before the VIX value
VeryHighPre ==
    <<"M", "a", "r", "k", "e", "t", " ", "v", "o", "l", "a", "t", "i", "l", "i", "t", "y", " ",
      "i", "s", " ", "*", "*", "v", "e", "r", "y", " ", "h", "i", "g", "h", "*", "*", " ", "(",
      "V", "I", "X", " ", "approx", " ">>

\* src/App.py line 142, text after the VIX value
VeryHighPost ==
    <<")", ".", " ", "C", "o", "n", "s", "i", "d", "e", "r", " ", "h", "e", "d", "g", "i", "n",
      "g", " ", "o", "r", " ", "r", "e", "d", "u", "c", "i", "n", "g", " ", "r", "i", "s", "k",
      " ", "e", "x", "p", "o", "s", "u", "r", "e", ".">>

\* src/App.py line 144, text before the VIX value
ElevatedPre ==
    <<"M", "a", "r", "k", "e", "t", " ", "v", "o", "l", "a", "t", "i", "l", "i", "t", "y", " ",
      "i", "s", " ", "e", "l", "e", "v", "a", "t", "e", "d", " ", "(", "V", "I", "X", " ",
      "approx", " ">>

\* src/App.py line 144, text after the VIX value
ElevatedPost ==
    <<")", ".", " ", "C", "a", "u", "t", "i", "o", "n", " ", "i", "s", " ", "a", "d", "v", "i",
      "s", "e", "d", " ", "w", "i", "t", "h", " ", "r", "i", "s", "k", " ", "a", "s", "s", "e",
      "t", "s", ".">>

\* src/App.py line 148, text before the yield
YieldPre ==
    <<"1", "0", "-", "Y", "e", "a", "r", " ", "T", "r", "e", "a", "s", "u", "r", "y", " ", "y",
      "i", "e", "l", "d", " ", "i", "s", " ", "*", "*">>

\* src/App.py line 148, text after the yield
YieldPost ==
    <<"%", "*", "*", ",", " ", "w", "h", "i", "c", "h", " ", "i", "s", " ", "r", "e", "l", "a",
      "t", "i", "v", "e", "l", "y", " ", "h", "i", "g", "h", ".", " ", "H", "i", "g", "h", " ",
      "r", "a", "t", "e", "s", " ", "c", "a", "n", " ", "p", "r", "e", "s", "s", "u", "r", "e",
      " ", "s", "t", "o", "c", "k", "s", " ", "a", "n", "d", " ", "m", "a", "k", "e", " ", "b",
      "o", "n", "d", "s", " ", "m", "o", "r", "e", " ", "a", "t", "t", "r", "a", "c", "t", "i",
      "v", "e", ".">>

\* src/App.py line 153, text before the count
WeakPre ==
    <<"O", "n", "l", "y", " ", "*", "*">>

\* src/App.py line 153, text after the count
WeakPost ==
    <<" ", "o", "f", " ", "1", "1", "*", "*", " ", "s", "e", "c", "t", "o", "r", "s", " ", "a",
      "r", "e", " ", "a", "b", "o", "v", "e", " ", "t", "h", "e", "i", "r", " ", "2", "0", "0",
      "-", "d", "a", "y", " ", "M", "A", ".", " ", "M", "a", "r", "k", "e", "t", " ", "b", "r",
      "e", "a", "d", "t", "h", " ", "i", "s", " ", "v", "e", "r", "y", " ", "w", "e", "a", "k",
      ",", " ", "r", "e", "f", "l", "e", "c", "t", "i", "n", "g", " ", "a", " ", "*", "*", "R",
      "i", "s", "k", "-", "O", "f", "f", "*", "*", " ", "e", "n", "v", "i", "r", "o", "n", "m",
      "e", "n", "t", ".">>

\* src/App.py line 155, text before the count
StrongPre ==
    <<"*", "*">>

\* src/App.py line 155, text after the count
StrongPost ==
    <<" ", "o", "f", " ", "1", "1", "*", "*", " ", "s", "e", "c", "t", "o", "r", "s", " ", "a",
      "r", "e", " ", "a", "b", "o", "v", "e", " ", "t", "h", "e", "i", "r", " ", "2", "0", "0",
      "-", "d", "a", "y", " ", "M", "A", ".", " ", "M", "a", "r", "k", "e", "t", " ", "b", "r",
      "e", "a", "d", "t", "h", " ", "i", "s", " ", "s", "t", "r", "o", "n", "g", ",", " ", "r",
      "e", "f", "l", "e", "c", "t", "i", "n", "g", " ", "a", " ", "b", "r", "o", "a", "d", " ",
      "*", "*", "R", "i", "s", "k", "-", "O", "n", "*", "*", " ", "r", "a", "l", "l", "y", ".">>

\* src/App.py line 161
XlyLeadsMsg ==
    <<"C", "o", "n", "s", "u", "m", "e", "r", " ", "D", "i", "s", "c", "r", "e", "t", "i", "o",
      "n", "a", "r", "y", " ", "(", "X", "L", "Y", ")", " ", "i", "s", " ", "s", "t", "r", "o",
      "n", "g", " ", "w", "h", "i", "l", "e", " ", "S", "t", "a", "p", "l", "e", "s", " ", "(",
      "X", "L", "P", ")", " ", "l", "a", "g", ",", " ", "i", "n", "d", "i", "c", "a", "t", "i",
      "n", "g", " ", "i", "n", "v", "e", "s", "t", "o", "r", "s", " ", "a", "r", "e", " ", "l",
      "e", "a", "n", "i", "n", "g", " ", "*", "*", "R", "i", "s", "k", "-", "O", "n", "*", "*",
      ".">>

\* src/App.py line 163
XlpLeadsMsg ==
    <<"C", "o", "n", "s", "u", "m", "e", "r", " ", "S", "t", "a", "p", "l", "e", "s", " ", "(",
      "X", "L", "P", ")", " ", "i", "s", " ", "o", "u", "t", "p", "e", "r", "f", "o", "r", "m",
      "i", "n", "g", " ", "X", "L", "Y", ",", " ", "i", "n", "d", "i", "c", "a", "t", "i", "n",
      "g", " ", "a", " ", "s", "h", "i", "f", "t", " ", "t", "o", " ", "*", "*", "R", "i", "s",
      "k", "-", "O", "f", "f", "*", "*", " ", "d", "e", "f", "e", "n", "s", "i", "v", "e", " ",
      "p", "o", "s", "i", "t", "i", "o", "n", "i", "n", "g", ".">>

\* src/App.py line 170
SafeHavenMsg ==
    <<"T", "r", "e", "a", "s", "u", "r", "y", " ", "b", "o", "n", "d", "s", " ", "(", "T", "L",
      "T", ")", " ", "a", "r", "e", " ", "i", "n", " ", "a", "n", " ", "u", "p", "t", "r", "e",
      "n", "d", " ", "w", "h", "i", "l", "e", " ", "e", "q", "u", "i", "t", "i", "e", "s", " ",
      "a", "r", "e", " ", "w", "e", "a", "k", " ", "endash", " ", "a", " ", "p", "o", "s", "s",
      "i", "b", "l", "e", " ", "f", "l", "i", "g", "h", "t", " ", "t", "o", " ", "s", "a", "f",
      "e", "t", "y", " ", "i", "n", "t", "o", " ", "b", "o", "n", "d", "s", ".">>

\* src/App.py line 176: the words whose presence makes an alert a warning
Keywords ==
    <<<<"c", "a", "u", "t", "i", "o", "n">>,
      <<"w", "e", "a", "k">>,
      <<"r", "i", "s", "k", "-", "o", "f", "f">>,
      <<"h", "i", "g", "h">>,
      <<"l", "a", "g">>,
      <<"p", "r", "e", "s", "s", "u", "r", "e">>,
      <<"h", "e", "d", "g", "i", "n", "g">>,
      <<"v", "e", "r", "y", " ", "h", "i", "g", "h">>>>

VeryHighMsg(v) == VeryHighPre \o Fmt1(v) \o VeryHighPost
ElevatedMsg(v) == ElevatedPre \o Fmt1(v) \o ElevatedPost
YieldMsg(y) == YieldPre \o Fmt2(y) \o YieldPost
WeakBreadthMsg(n) == WeakPre \o Digits(n) \o WeakPost
StrongBreadthMsg(n) == StrongPre \o Digits(n) \o StrongPost

-----------------------------------------------------------------------------
(* Signals, src/App.py lines 43-117 *)

\* momentum_status: the mark the status text starts with ("Above" is the up
\* triangle, "Below" the down triangle)
momentum_status(lp, lm, ticker) ==
    LET price == lp[ticker]
        ma == lm[ticker]
    IN  IF IsNa(ma) THEN "No data"
        ELSE IF Ge(Scaled(price), ma) THEN "Above"
        ELSE "Below"

RECURSIVE CountAbove(_, _, _)
\* the loop over sector_etfs[1..k]
CountAbove(lp, lm, k) ==
    IF k = 0 THEN 0
    ELSE CountAbove(lp, lm, k - 1)
            + (IF momentum_status(lp, lm, sector_etfs[k]) = "Above" THEN 1 ELSE 0)

SectorsAbove(lp, lm) == CountAbove(lp, lm, Len(sector_etfs))

\* 10-year yield in hundredths of a percent: tnx_index / 10.0
TenYearYield(tnx_index) == IF IsNa(tnx_index) THEN NaN ELSE tnx_index * 10

\* (col.iloc[-1] / col.iloc[-63] - 1) * 100 as <<numerator, denominator>>; <<0, 0>> is NaN
Return3m(col) ==
    LET last == ILoc(col, 1)
        ref == ILoc(col, Lookback)
    IN  IF IsNa(last) \/ IsNa(ref) THEN <<0, 0>> ELSE <<(last - ref) * 100, ref>>

\* the 3-month returns, computed when the frame has more than 63 rows
Returns(frame) ==
    IF "XLY" \in DOMAIN frame /\ "XLP" \in DOMAIN frame /\ Rows(frame) > Lookback
    THEN [XLY |-> Return3m(frame["XLY"]), XLP |-> Return3m(frame["XLP"])]
    ELSE <<>>

-----------------------------------------------------------------------------
(* Alert rules, src/App.py lines 119-170; each yields the alerts it appends *)

\* variant: the steady-state rule is a test of its own, not the else branch of the edge rule
TrendAlertsBoth(frame, lp, lm) ==
    LET spy_price == Get(lp, "SPY", None)
        spy_ma == Get(lm, "SPY", None)
        col == frame["SPY"]
        prev_price == ILoc(col, 2)
        prev_ma == RollingMean(col, Len(col) - 1)
    IN  IF spy_price # None /\ ~IsNa(spy_ma)
        THEN IF Lt(Scaled(spy_price), spy_ma)
             THEN (IF Ge(Scaled(prev_price), prev_ma) THEN <<FellBelowMsg>> ELSE <<>>)
                    \o <<RemainsBelowMsg>>
             ELSE IF Lt(Scaled(prev_price), prev_ma)
                  THEN <<ClimbedAboveMsg>>
                  ELSE <<>>
        ELSE <<>>

\* variant: the edge tests read the previous row with the comparisons exchanged
TrendAlertsSwapped(frame, lp, lm) ==
    LET spy_price == Get(lp, "SPY", None)
        spy_ma == Get(lm, "SPY", None)
        col == frame["SPY"]
        prev_price == ILoc(col, 2)
        prev_ma == RollingMean(col, Len(col) - 1)
    IN  IF spy_price # None /\ ~IsNa(spy_ma)
        THEN IF Lt(Scaled(spy_price), spy_ma)
             THEN IF Lt(Scaled(prev_price), prev_ma)
                  THEN <<FellBelowMsg>>
                  ELSE <<RemainsBelowMsg>>
             ELSE IF Ge(Scaled(prev_price), prev_ma)
                  THEN <<ClimbedAboveMsg>>
                  ELSE <<>>
        ELSE <<>>

TrendAlerts(frame, lp, lm) ==
    LET spy_price == Get(lp, "SPY", None)
        spy_ma == Get(lm, "SPY", None)
        col == frame["SPY"]
        prev_price == ILoc(col, 2)
        prev_ma == RollingMean(col, Len(col) - 1)
    IN  IF spy_price # None /\ ~IsNa(spy_ma)
        THEN IF Lt(Scaled(spy_price), spy_ma)
             THEN IF Ge(Scaled(prev_price), prev_ma)
                  THEN <<FellBelowMsg>>
                  ELSE <<RemainsBelowMsg>>
             ELSE IF Lt(Scaled(prev_price), prev_ma)
                  THEN <<ClimbedAboveMsg>>
                  ELSE <<>>
        ELSE <<>>

\* variant: the upper tier starts above 30, not at 30
VolatilityAlertsStrict(vix_level) ==
    IF Gt(vix_level, VixLow)
    THEN IF Gt(vix_level, VixHigh)
         THEN <<VeryHighMsg(vix_level)>>
         ELSE <<ElevatedMsg(vix_level)>>
    ELSE <<>>

VolatilityAlerts(vix_level) ==
    IF Gt(vix_level, VixLow)
    THEN IF Ge(vix_level, VixHigh)
         THEN <<VeryHighMsg(vix_level)>>
         ELSE <<ElevatedMsg(vix_level)>>
    ELSE <<>>

YieldAlerts(ten_year_yield) ==
    IF Ge(ten_year_yield, YieldHigh) THEN <<YieldMsg(ten_year_yield)>> ELSE <<>>

\* variant: the weak tier ends below 3, not at 3
BreadthAlertsStrict(above) ==
    IF above < BreadthWeak THEN <<WeakBreadthMsg(above)>>
    ELSE IF above >= BreadthStrong THEN <<StrongBreadthMsg(above)>>
    ELSE <<>>

BreadthAlerts(above) ==
    IF above <= BreadthWeak THEN <<WeakBreadthMsg(above)>>
    ELSE IF above >= BreadthStrong THEN <<StrongBreadthMsg(above)>>
    ELSE <<>>

LeadershipAlerts(lp, lm) ==
    LET xly_above == Ge(Scaled(Get(lp, "XLY", 0)), Get(lm, "XLY", NaN))
        xlp_above == Ge(Scaled(Get(lp, "XLP", 0)), Get(lm, "XLP", NaN))
    IN  IF xly_above /\ ~xlp_above THEN <<XlyLeadsMsg>>
        ELSE IF xlp_above /\ ~xly_above THEN <<XlpLeadsMsg>>
        ELSE <<>>

\* variant: the equity leg of the conjunction is missing
SafeHavenAlertsBondsOnly(lp, lm) ==
    LET spy_price == Get(lp, "SPY", None)
        spy_ma == Get(lm, "SPY", None)
        tlt_price == Get(lp, "TLT", None)
        tlt_ma == Get(lm, "TLT", None)
    IN  IF tlt_price # None /\ spy_price # None /\ ~IsNa(tlt_ma) /\ ~IsNa(spy_ma)
        THEN IF Gt(Scaled(tlt_price), tlt_ma) THEN <<SafeHavenMsg>> ELSE <<>>
        ELSE <<>>

SafeHavenAlerts(lp, lm) ==
    LET spy_price == Get(lp, "SPY", None)
        spy_ma == Get(lm, "SPY", None)
        tlt_price == Get(lp, "TLT", None)
        tlt_ma == Get(lm, "TLT", None)
    IN  IF tlt_price # None /\ spy_price # None /\ ~IsNa(tlt_ma) /\ ~IsNa(spy_ma)
        THEN IF Gt(Scaled(tlt_price), tlt_ma) /\ Lt(Scaled(spy_price), spy_ma)
             THEN <<SafeHavenMsg>>
             ELSE <<>>
        ELSE <<>>

\* variant: the leadership rule runs before the breadth rule
BuildAlertsReordered(frame, lp, lm, above) ==
    TrendAlerts(frame, lp, lm)
        \o VolatilityAlerts(lp["^VIX"])
        \o YieldAlerts(TenYearYield(lp["^TNX"]))
        \o LeadershipAlerts(lp, lm)
        \o BreadthAlerts(above)
        \o SafeHavenAlerts(lp, lm)

\* the alerts list after lines 121-170
BuildAlerts(frame, lp, lm, above) ==
    TrendAlerts(frame, lp, lm)
        \o VolatilityAlerts(lp["^VIX"])
        \o YieldAlerts(TenYearYield(lp["^TNX"]))
        \o BreadthAlerts(above)
        \o LeadershipAlerts(lp, lm)
        \o SafeHavenAlerts(lp, lm)

\* lines 176-179: warning when the lowered text holds one of the words
Severity(alert) ==
    LET lowered == Lower(alert)
    IN  IF \E k \in DOMAIN Keywords : Contains(lowered, Keywords[k])
        THEN "warning"
        ELSE "success"

\* lines 173-181
Display(list) == IF list # <<>> THEN [i \in DOMAIN list |-> Severity(list[i])] ELSE <<"info">>

-----------------------------------------------------------------------------
(* The cache of load_data, src/App.py lines 25-41 *)

\* the arguments the cache hashes: (all_tickers, start_date, end_date); the
\* ticker list never changes
CacheKey(now) == <<now - HistorySeconds, now>>

\* entries younger than the lifetime
Live(c, now) == {e \in c : now - e.stored < TTL}

Hit(c, now) == {e \in Live(c, now) : e.key = CacheKey(now)}

-----------------------------------------------------------------------------
(* Actions *)

InitWith(frames) ==
    /\ clock = 0
    /\ ticks = 0
    /\ feed \in frames
    /\ cache = {}
    /\ prices = <<>>
    /\ latest_prices = <<>>
    /\ latest_ma200 = <<>>
    /\ sectors_above = 0
    /\ returns = <<>>
    /\ alerts = <<>>
    /\ shown = <<>>
    /\ downloaded = FALSE
    /\ pressed = FALSE
    /\ end_date = None
    /\ last_download = None
    /\ prev_signal = "none"

\* load_data through the cache (lines 29-33, 41): the frame returned and the
\* cache left behind; kept is the cache the call finds
LoadData(kept, now, served) ==
    IF Hit(kept, now) # {}
    THEN [frame |-> (CHOOSE e \in Hit(kept, now) : TRUE).value, cache |-> kept, fetched |-> FALSE]
    ELSE [frame |-> served,
          cache |-> kept \cup {[key |-> CacheKey(now), stored |-> now, value |-> served]},
          fetched |-> TRUE]

\* one execution of the script, statement by statement; press is the Refresh
\* button (lines 36-38: the cache is cleared and the script starts over)
Script(press) ==
    /\ end_date' = clock
    /\ pressed' = press
    /\ \E loaded \in {LoadData(IF press THEN {} ELSE Live(cache, clock), clock, feed)} :
          /\ cache' = loaded.cache
          /\ downloaded' = loaded.fetched
          /\ prices' = loaded.frame
    /\ latest_prices' = LatestPrices(prices')
    /\ latest_ma200' = LatestMa200(prices')
    /\ sectors_above' = SectorsAbove(latest_prices', latest_ma200')
    /\ returns' = Returns(prices')
    /\ alerts' = BuildAlerts(prices', latest_prices', latest_ma200', sectors_above')
    /\ shown' = Display(alerts')
    /\ last_download' = IF end_date # None /\ downloaded THEN end_date ELSE last_download
    /\ prev_signal' = IF end_date = None THEN "none"
                      ELSE momentum_status(latest_prices, latest_ma200, "SPY")
    /\ UNCHANGED <<clock, feed, ticks>>

\* the page is opened or reruns
Rerun == Script(FALSE)

\* the Refresh button of the rendered page is pressed
Refresh == end_date # None /\ Script(TRUE)

\* time passes
Tick ==
    /\ ticks < MaxTicks
    /\ \E dt \in {1, TTL} : clock' = clock + dt
    /\ ticks' = ticks + 1
    /\ UNCHANGED <<feed, cache, prices, latest_prices, latest_ma200, sectors_above, returns,
                   alerts, shown, downloaded, pressed, end_date, last_download, prev_signal>>

\* a trading day closes: the provider's frame gains a row
NewBar ==
    /\ Rows(feed) < Window + MaxExtraRows
    /\ \E row \in NewRows : feed' = AppendRow(feed, row)
    /\ UNCHANGED <<clock, ticks, cache, prices, latest_prices, latest_ma200, sectors_above,
                   returns, alerts, shown, downloaded, pressed, end_date, last_download,
                   prev_signal>>

\* the decision engine over every input frame; the clock stands still
Init == InitWith(Feeds)
Next == Rerun \/ Refresh
Spec == Init /\ [][Next]_vars

\* a session: reruns and refreshes while time passes and new bars arrive
SessionInit == InitWith(SessionFeeds)
SessionNext == Rerun \/ Refresh \/ Tick \/ NewBar
SessionSpec == SessionInit /\ [][SessionNext]_vars

-----------------------------------------------------------------------------
(* Vocabulary of the properties *)

\* a cycle has run
Ran == end_date # None

Has(msg) == \E i \in DOMAIN alerts : alerts[i] = msg

StartsWith(text, pre) == Len(text) >= Len(pre) /\ SubSeq(text, 1, Len(pre)) = pre
EndsWith(text, post) ==
    Len(text) >= Len(post) /\ SubSeq(text, Len(text) - Len(post) + 1, Len(text)) = post

IsVeryHigh(a) == StartsWith(a, VeryHighPre) /\ EndsWith(a, VeryHighPost)
IsElevated(a) == StartsWith(a, ElevatedPre) /\ EndsWith(a, ElevatedPost)
IsYield(a) == StartsWith(a, YieldPre) /\ EndsWith(a, YieldPost)
IsWeakBreadth(a) == StartsWith(a, WeakPre) /\ EndsWith(a, WeakPost)
IsStrongBreadth(a) == StartsWith(a, StrongPre) /\ EndsWith(a, StrongPost)

\* the rule group an alert text belongs to: 1 trend, 2 volatility, 3 yield,
\* 4 breadth, 5 sector leadership, 6 safe haven
Group(a) ==
    IF a \in {FellBelowMsg, RemainsBelowMsg, ClimbedAboveMsg} THEN 1
    ELSE IF IsVeryHigh(a) \/ IsElevated(a) THEN 2
    ELSE IF IsYield(a) THEN 3
    ELSE IF IsWeakBreadth(a) \/ IsStrongBreadth(a) THEN 4
    ELSE IF a \in {XlyLeadsMsg, XlpLeadsMsg} THEN 5
    ELSE IF a = SafeHavenMsg THEN 6
    ELSE 0

InGroup(g) == {i \in DOMAIN alerts : Group(alerts[i]) = g}

\* the polarity of a rule
RiskOn(a) == a = ClimbedAboveMsg \/ IsStrongBreadth(a) \/ a = XlyLeadsMsg
RiskOff(a) ==
    \/ a \in {FellBelowMsg, RemainsBelowMsg, XlpLeadsMsg, SafeHavenMsg}
    \/ IsVeryHigh(a) \/ IsElevated(a) \/ IsYield(a) \/ IsWeakBreadth(a)

\* SPY's state at row i of a frame, from the rows themselves
BarState(frame, i) ==
    IF i < 1 THEN "No data"
    ELSE LET ma == RollingMean(frame["SPY"], i)
             price == frame["SPY"][i]
         IN  IF IsNa(ma) \/ IsNa(price) THEN "No data"
             ELSE IF price * Window >= ma THEN "Above"
             ELSE "Below"

SpyDefined == ~IsNa(latest_prices["SPY"]) /\ ~IsNa(latest_ma200["SPY"])

\* the sectors whose latest price is at or above their defined average
SectorSet == {sector_etfs[i] : i \in DOMAIN sector_etfs}
AtOrAbove ==
    {s \in SectorSet : ~IsNa(latest_prices[s]) /\ ~IsNa(latest_ma200[s])
                         /\ latest_prices[s] * Window >= latest_ma200[s]}

\* two fractions <<numerator, denominator>> denote the same number (0/0 is NaN)
SameFraction(a, b) == (a[2] = 0 <=> b[2] = 0) /\ a[1] * b[2] = b[1] * a[2]

\* the rolling return with lookback 63 at the latest row, in percent
RollingReturn(col) ==
    LET i == Len(col)
    IN  IF IsNa(col[i]) \/ IsNa(col[i - Lookback]) THEN <<0, 0>>
        ELSE <<(col[i] - col[i - Lookback]) * 100, col[i - Lookback]>>

ReturnsShown == DOMAIN returns # {}

-----------------------------------------------------------------------------
(* C1: in a cycle where SPY's latest price and average are defined, at most *)
(* one trend alert is emitted; below now and at or above at the previous    *)
(* row gives 'fell below' and not 'remains below'; 'remains below' never    *)
(* comes with 'fell below'.                                                 *)
C1_OneTrendAlert ==
    (Ran /\ SpyDefined) =>
        /\ Cardinality(InGroup(1)) <= 1
        /\ (BarState(prices, Rows(prices)) = "Below"
              /\ BarState(prices, Rows(prices) - 1) = "Above")
             => (Has(FellBelowMsg) /\ ~Has(RemainsBelowMsg))
        /\ Has(RemainsBelowMsg) => ~Has(FellBelowMsg)

C1_Witness ==
    /\ Ran /\ SpyDefined
    /\ BarState(prices, Rows(prices)) = "Below"
    /\ BarState(prices, Rows(prices) - 1) = "Above"
    /\ alerts[1] = FellBelowMsg

C3_NoAlertWithoutData ==
    Ran =>
        /\ IsNa(latest_ma200["SPY"]) => InGroup(1) = {}
        /\ IsNa(latest_prices["^VIX"]) => InGroup(2) = {}
        /\ IsNa(latest_prices["^TNX"]) => InGroup(3) = {}
        /\ (\E s \in SectorSet : IsNa(latest_ma200[s])) => InGroup(4) = {}
        /\ (IsNa(latest_ma200["XLY"]) \/ IsNa(latest_ma200["XLP"])) => InGroup(5) = {}
        /\ (IsNa(latest_ma200["TLT"]) \/ IsNa(latest_ma200["SPY"])) => InGroup(6) = {}

(* C4: every risk-on alert is shown as success and every risk-off alert as  *)
(* warning.                                                                 *)
C4_SeverityByPolarity ==
    Ran =>
        \A i \in DOMAIN alerts :
            /\ RiskOn(alerts[i]) => shown[i] = "success"
            /\ RiskOff(alerts[i]) => shown[i] = "warning"

(* C5: the alert list is in the order trend, volatility, yield, breadth,    *)
(* sector leadership, safe haven, with at most one alert of each group.     *)
C5_FixedOrder ==
    Ran =>
        /\ Len(alerts) <= 6
        /\ \A i \in DOMAIN alerts : Group(alerts[i]) \in 1..6
        /\ \A i, j \in DOMAIN alerts : i < j => Group(alerts[i]) < Group(alerts[j])
        /\ ~(Has(XlyLeadsMsg) /\ Has(XlpLeadsMsg))

C5_Witness ==
    /\ Ran
    /\ Len(alerts) = 6
    /\ [i \in 1..6 |-> Group(alerts[i])] = <<1, 2, 3, 4, 5, 6>>

(* C6: with n the number of sectors at or above their average, the weak     *)
(* breadth alert (carrying n) is emitted exactly when n <= 3, the strong    *)
(* breadth alert (carrying n) exactly when n >= 8, and never both.          *)
C6_BreadthTiers ==
    Ran =>
        LET n == Cardinality(AtOrAbove)
        IN  /\ sectors_above = n
            /\ (n <= 3) <=> Has(WeakBreadthMsg(n))
            /\ (n >= 8) <=> Has(StrongBreadthMsg(n))
            /\ (\E i \in DOMAIN alerts : IsWeakBreadth(alerts[i])) <=> (n <= 3)
            /\ (\E i \in DOMAIN alerts : IsStrongBreadth(alerts[i])) <=> (n >= 8)
            /\ Cardinality(InGroup(4)) <= 1

C6_Witness ==
    /\ Ran
    /\ Cardinality(AtOrAbove) = 3
    /\ ~(\E s \in SectorSet : IsNa(latest_ma200[s]))
    /\ Has(WeakBreadthMsg(3))

(* C7: VIX at or above 30 gives only the 'very high' alert, VIX above 20    *)
(* and below 30 only the 'elevated' alert, VIX at or below 20 none.         *)
C7_VolatilityTiers ==
    Ran =>
        LET v == latest_prices["^VIX"]
        IN  /\ Cardinality(InGroup(2)) <= 1
            /\ (~IsNa(v) /\ v >= 30) =>
                  (Has(VeryHighMsg(v)) /\ ~(\E i \in DOMAIN alerts : IsElevated(alerts[i])))
            /\ (~IsNa(v) /\ v > 20 /\ v < 30) =>
                  (Has(ElevatedMsg(v)) /\ ~(\E i \in DOMAIN alerts : IsVeryHigh(alerts[i])))
            /\ (~IsNa(v) /\ v <= 20) => InGroup(2) = {}

C7_Witness ==
    /\ Ran
    /\ latest_prices["^VIX"] = 30
    /\ Has(VeryHighMsg(30))

(* C8: the 3-month returns are shown only for a frame of at least 64 rows   *)
(* and are the rolling return with lookback 63 at the latest row.           *)
C8_ReturnLookback ==
    (Ran /\ ReturnsShown) =>
        /\ Rows(prices) >= 64
        /\ SameFraction(returns["XLY"], RollingReturn(prices["XLY"]))
        /\ SameFraction(returns["XLP"], RollingReturn(prices["XLP"]))

(* C9: a cycle that was not started by the Refresh button downloads only    *)
(* when no download came before it or the last one is at least an hour old. *)
C9_NoDownloadWithinLifetime ==
    (Ran /\ downloaded /\ ~pressed) =>
        (last_download = None \/ end_date - last_download >= 3600)

(* C10: the safe-haven alert comes only with TLT's and SPY's price and      *)
(* average defined, after a SPY below-average trend alert in the same list, *)
(* and never with 'climbed back above'.                                     *)
C10_SafeHavenAfterDowntrend ==
    (Ran /\ Has(SafeHavenMsg)) =>
        /\ \A t \in {"TLT", "SPY"} : ~IsNa(latest_prices[t]) /\ ~IsNa(latest_ma200[t])
        /\ \E i, j \in DOMAIN alerts :
              /\ i < j
              /\ alerts[i] \in {FellBelowMsg, RemainsBelowMsg}
              /\ alerts[j] = SafeHavenMsg
        /\ ~Has(ClimbedAboveMsg)

C10_Witness ==
    /\ Ran
    /\ Has(SafeHavenMsg)
    /\ Has(RemainsBelowMsg)

====
